---- MODULE Spec2Model ----
(***************************************************************************)
(* A model of three pieces of the web clients:                             *)
(*   - getPaginatedEventsByUID (packages/shared/lib/calendar/api.ts),      *)
(*   - the folder comparator destinationFoldersFirst and the sort that     *)
(*     moveToPrepareStep applies with it,                                  *)
(*   - the ImportMailModal wizard (packages/activation/mail/modals).       *)
(* Each piece has its own specification; the variables of the other pieces *)
(* are parked while one piece runs. The wizard's mount has a specification *)
(* of its own, which keeps the provider prop that the running wizard no    *)
(* longer reads.                                                           *)
(***************************************************************************)
EXTENDS Integers, Sequences, FiniteSets, TLC

VARIABLES
    \* ---- getPaginatedEventsByUID ----
    max,            \* the caller's `max` argument (defaults to MAX_ITERATIONS)
    srvFull,        \* the server holds srvFull full pages ...
    srvLast,        \* ... followed by one page of srvLast events, then empty pages
    pageNumber,     \* the loop variable
    result,         \* the accumulated events
    requests,       \* the page numbers requested so far, in order
    evPc,           \* "idle" | "loop" | "returned" | "failed"
    apiError,       \* the error the awaited api() threw ("" when none)
    evError,        \* the error the call rejected with ("" when none)
    \* ---- Array.prototype.sort(destinationFoldersFirst) ----
    folders,        \* the array handed to sort
    sorted,         \* the array after sort
    sortPc,         \* "idle" | "input" | "sorted"
    \* ---- ImportMailModal ----
    currentImport,  \* the currentImport prop (NoImport when absent)
    mountProvider,  \* the provider prop of the mount SpecMount examines
    modalModel,     \* the useState model of lines 126-143
    debouncedEmail, \* useDebounceInput(modalModel.email)
    cancelEmail,    \* modalModel.email as the memoised Cancel button's handler sees it
    probes,         \* checkAuth calls in flight
    sub,            \* the operation handleSubmit started that is in flight
    created,        \* importers createImport has created on the server
    listed,         \* a getMailImportData request has been sent
    createSent,     \* a createImport request has been sent
    closedBy,       \* who called onClose ("" while the modal is open)
    confirmOpen,    \* the discard dialog is shown
    effect          \* what the last step threw, reported and received

evVars   == <<max, srvFull, srvLast, pageNumber, result, requests, evPc, apiError,
             evError>>
sortVars == <<folders, sorted, sortPc>>
frameVars == <<currentImport, mountProvider, evVars, sortVars>>
wizVars == <<currentImport, mountProvider, modalModel, debouncedEmail, cancelEmail, probes,
             sub, created, listed, createSent, closedBy, confirmOpen,
             effect>>
vars     == <<evVars, sortVars, wizVars>>

-----------------------------------------------------------------------------
(* Bounds of the model *)

\* the caller passes max in 1..MaxSmallMax, or the default, or the default + MaxOver
MaxSmallMax == 2
\* the server holds 0..MaxSmallFull full pages, or a number of full pages
\* within MaxOver of MAX_ITERATIONS
MaxSmallFull == 2
\* how far past MAX_ITERATIONS the caller's max and the server's pages go
MaxOver == 1
\* the longest folder list handed to sort
MaxFolders == 3
\* the longest folder list the server answers the wizard with
MaxServerFolders == 2
\* checkAuth calls in flight at once
MaxProbes == 1
\* importers one wizard session can create on the server
MaxImports == 2

-----------------------------------------------------------------------------
(* getPaginatedEventsByUID *)

MAX_ITERATIONS == 100
pageSize == 100

\* The events of the server's page p: events are named by page and position.
PageLen(p) == IF p < srvFull THEN pageSize ELSE IF p = srvFull THEN srvLast ELSE 0
ServerPage(p) == [i \in 1..PageLen(p) |-> <<p, i>>]

\* max = MAX_ITERATIONS when the caller passes none
MaxArgs == (1..MaxSmallMax) \cup {MAX_ITERATIONS} \cup {MAX_ITERATIONS + MaxOver}
ServerFulls == (0..MaxSmallFull)
                 \cup ((MAX_ITERATIONS - MaxOver)..(MAX_ITERATIONS + MaxOver))
\* an empty, a one-event, an almost full and an over-long last page
ServerLasts == {0, 1, pageSize - 1, pageSize + 1}
ApiErrors == {"NetworkError", "ApiError"}

EvParked ==
    /\ max = 0 /\ srvFull = 0 /\ srvLast = 0 /\ pageNumber = 0
    /\ result = <<>> /\ requests = <<>> /\ evPc = "idle"
    /\ apiError = "" /\ evError = ""

\* the call's entry: pageNumber = 0, result = []
EvInit ==
    /\ max \in MaxArgs
    /\ srvFull \in ServerFulls
    /\ srvLast \in ServerLasts
    /\ pageNumber = 0
    /\ result = <<>>
    /\ requests = <<>>
    /\ evPc = "loop"
    /\ apiError = ""
    /\ evError = ""

\* a mutation of the break test: stop only on an empty page
IsLastPageOnlyIfEmpty(page) == Len(page) = 0
\* line 37: page.Events.length !== pageSize
IsLastPage(page) == Len(page) # pageSize

\* a mutation of the loop test: one iteration too many
LoopGuardOffByOne == pageNumber <= max
\* line 24: while (pageNumber < max)
LoopGuard == pageNumber < max

\* One iteration whose request succeeds (lines 24-41).
FetchPage ==
    /\ evPc = "loop"
    /\ LoopGuard
    /\ LET page == ServerPage(pageNumber) IN
         /\ requests' = Append(requests, pageNumber)
         /\ result' = result \o page
         /\ IF IsLastPage(page)
               THEN /\ evPc' = "returned"
                    /\ UNCHANGED pageNumber
               ELSE /\ pageNumber' = pageNumber + 1
                    /\ UNCHANGED evPc
    /\ UNCHANGED <<max, srvFull, srvLast, apiError, evError>>

\* a mutation: the error is wrapped on its way out
RejectionWrapped(e) == "getPaginatedEventsByUID: " \o e
\* lines 24-43 have no try/catch: what the awaited api() throws is what the
\* call rejects with
Rejection(e) == e

\* One iteration whose request fails: the await throws, the call rejects (line 35).
FetchPageFails ==
    /\ evPc = "loop"
    /\ LoopGuard
    /\ \E e \in ApiErrors :
         /\ requests' = Append(requests, pageNumber)
         /\ apiError' = e
         /\ evError' = Rejection(e)
         /\ evPc' = "failed"
    /\ UNCHANGED <<max, srvFull, srvLast, pageNumber, result>>

\* The loop test fails: return result (lines 24, 43).
ReturnAtCap ==
    /\ evPc = "loop"
    /\ ~LoopGuard
    /\ evPc' = "returned"
    /\ UNCHANGED <<max, srvFull, srvLast, pageNumber, result, requests, apiError,
                   evError>>

EvNext == FetchPage \/ FetchPageFails \/ ReturnAtCap

-----------------------------------------------------------------------------
(* destinationFoldersFirst and the sort *)

\* Source names are strings compared by code unit; a name is a sequence of units.
RECURSIVE SeqsUpTo(_, _)
SeqsUpTo(S, n) ==
    IF n = 0 THEN {<<>>}
    ELSE LET shorter == SeqsUpTo(S, n - 1) IN
         shorter \cup {Append(s, x) : s \in {t \in shorter : Len(t) = n - 1}, x \in S}
\* "", "a", "b", "aa", "ab"
Sources == {<<>>, <<1>>, <<2>>, <<1, 1>>, <<1, 2>>}
\* DestinationFolder is optional: "" stands for an absent (falsy) one
Destinations == {"", "Inbox"}
ImportedMailFolder == [Source : Sources, DestinationFolder : Destinations]

\* JavaScript's < on strings: the first differing code unit decides, a proper
\* prefix is smaller
RECURSIVE StrLess(_, _)
StrLess(s, t) ==
    IF t = <<>> THEN FALSE
    ELSE IF s = <<>> THEN TRUE
    ELSE IF Head(s) # Head(t) THEN Head(s) < Head(t)
    ELSE StrLess(Tail(s), Tail(t))

\* a mutation: two mapped folders are compared by Source like two unmapped ones
destinationFoldersFirstBySource(a, b) ==
    IF a.DestinationFolder # "" /\ b.DestinationFolder = "" THEN -1
    ELSE IF a.DestinationFolder = "" /\ b.DestinationFolder # "" THEN 1
    ELSE IF StrLess(a.Source, b.Source) THEN -1
    ELSE IF StrLess(b.Source, a.Source) THEN 1
    ELSE 0
\* lines 54-71
destinationFoldersFirst(a, b) ==
    IF a.DestinationFolder # "" /\ b.DestinationFolder # "" THEN 0
    ELSE IF a.DestinationFolder # "" /\ b.DestinationFolder = "" THEN -1
    ELSE IF a.DestinationFolder = "" /\ b.DestinationFolder # "" THEN 1
    ELSE IF StrLess(a.Source, b.Source) THEN -1
    ELSE IF StrLess(b.Source, a.Source) THEN 1
    ELSE 0

\* Array.prototype.sort with a comparator is stable (ECMAScript 2019): an
\* insertion sort that puts x after every element not greater than it.
RECURSIVE InsertSorted(_, _)
InsertSorted(s, x) ==
    IF s = <<>> THEN <<x>>
    ELSE IF destinationFoldersFirst(s[Len(s)], x) <= 0 THEN Append(s, x)
    ELSE Append(InsertSorted(SubSeq(s, 1, Len(s) - 1), x), s[Len(s)])
RECURSIVE SortFolders(_)
SortFolders(s) ==
    IF s = <<>> THEN <<>>
    ELSE InsertSorted(SortFolders(SubSeq(s, 1, Len(s) - 1)), s[Len(s)])

FolderLists == SeqsUpTo(ImportedMailFolder, MaxFolders)

SortParked == folders = <<>> /\ sorted = <<>> /\ sortPc = "idle"

SortInit ==
    /\ folders \in FolderLists
    /\ sorted = <<>>
    /\ sortPc = "input"

\* providerFolders.sort(destinationFoldersFirst) (line 179)
Sort ==
    /\ sortPc = "input"
    /\ sorted' = SortFolders(folders)
    /\ sortPc' = "sorted"
    /\ UNCHANGED folders

SortNext == Sort

-----------------------------------------------------------------------------
(* The ImportMailModal wizard: values *)

\* IMPORT_ERROR codes named at lines 198-200; the enumeration itself lives in
\* @proton/activation/interface, only the codes' distinctness matters here
AUTHENTICATION_ERROR == 2901
IMAP_CONNECTION_ERROR == 2900
RATE_LIMIT_EXCEEDED == 429
\* a mutation: the rate-limit code is not captured
KnownImportErrorsWithoutRateLimit == {AUTHENTICATION_ERROR, IMAP_CONNECTION_ERROR}
\* lines 197-201
KnownImportErrors == {AUTHENTICATION_ERROR, IMAP_CONNECTION_ERROR, RATE_LIMIT_EXCEEDED}

\* What a failed request throws: an API error carries data {Code, Error}; a
\* network failure or a thrown exception carries no data.
NoDataError == [hasData |-> FALSE, Code |-> 0, Error |-> ""]
ThrownErrors ==
    { [hasData |-> TRUE, Code |-> AUTHENTICATION_ERROR, Error |-> "Invalid credentials"],
      [hasData |-> TRUE, Code |-> IMAP_CONNECTION_ERROR, Error |-> "Cannot reach IMAP server"],
      [hasData |-> TRUE, Code |-> RATE_LIMIT_EXCEEDED, Error |-> "Too many requests"],
      [hasData |-> TRUE, Code |-> 2500, Error |-> "Already exists"],
      NoDataError }

\* what the user can type
TypedEmails == {"", "u@x.org"}
TypedPasswords == {"", "secret"}
TypedImaps == {"", "imap.x.org"}
TypedPorts == {"", "993", "port"}

\* validateEmailAddress (@proton/shared/lib/helpers/email)
validateEmailAddress(e) == e \in {"u@x.org", "old@x.org"}
\* isNumber (@proton/shared/lib/helpers/validators): digits only
isNumber(p) == p \in {"993", "143"}
\* parseInt(port, 10) of a port the form accepts, and `${ImapPort}` back
parseInt(p) == CASE p = "993" -> 993 [] p = "143" -> 143 [] OTHER -> -1
PortToString(n) == CASE n = 993 -> "993" [] n = 143 -> "143" [] OTHER -> "NaN"

\* IMAPS and PORTS (../../constants), by provider
IMAPS(p) ==
    CASE p = "YAHOO" -> "imap.mail.yahoo.com"
      [] p = "OUTLOOK" -> "outlook.office365.com"
PORTS(p) ==
    CASE p = "YAHOO" -> "993"
      [] p = "OUTLOOK" -> "993"

\* a mutation: the YAHOO case is missing
getDefaultImapWithoutYahoo(p) ==
    CASE p = "OUTLOOK" -> IMAPS("OUTLOOK")
      [] OTHER -> ""
\* lines 89-98
getDefaultImap(p) ==
    CASE p = "OUTLOOK" -> IMAPS("OUTLOOK")
      [] p = "YAHOO" -> IMAPS("YAHOO")
      [] OTHER -> ""
\* lines 100-109
getDefaultPort(p) ==
    CASE p = "OUTLOOK" -> PORTS("OUTLOOK")
      [] p = "YAHOO" -> PORTS("YAHOO")
      [] OTHER -> ""

\* the provider prop: absent, the two known ones, one the switch does not name
Providers == {"", "OUTLOOK", "YAHOO", "OTHER"}
\* the currentImport prop: absent (ID "") or an importer the server holds
NoImport == [ID |-> "", Email |-> "", ImapHost |-> "", ImapPort |-> 0]
ExistingImport ==
    [ID |-> "imp-old", Email |-> "old@x.org", ImapHost |-> "imap.old.org", ImapPort |-> 143]

\* The importers the server holds: one that existed before the session (the
\* one being reconnected, or one the auth probe may find) and those created.
NewImporterID(n) == "imp-new-" \o ToString(n)
serverImports == {ExistingImport.ID} \cup {NewImporterID(n) : n \in 1..created}
\* getImport's answer for an importer the server holds
ImporterOfID(id) ==
    IF id = ExistingImport.ID THEN ExistingImport
    ELSE [ID |-> id, Email |-> "u@x.org", ImapHost |-> "imap.x.org", ImapPort |-> 993]

\* the folder lists the server may answer getMailImportData with
ServerFolders ==
    { [Source |-> <<2>>, DestinationFolder |-> "Inbox"],
      [Source |-> <<1>>, DestinationFolder |-> ""] }
ServerFolderLists == SeqsUpTo(ServerFolders, MaxServerFolders)

\* no operation in flight
NoSubmit ==
    [kind |-> "none", pc |-> "", importID |-> "", email |-> "", imap |-> "",
     port |-> "", allowSelfSigned |-> 0, importer |-> NoImport, done |-> <<>>]
\* a step of no operation: nothing thrown, nothing reported, no folders received
NoEffect ==
    [op |-> "", thrown |-> FALSE, error |-> NoDataError, reported |-> 0, folders |-> <<>>]
\* the model of an unmounted wizard
Unmounted == [step |-> "UNMOUNTED"]

-----------------------------------------------------------------------------
(* The ImportMailModal wizard: state after construction *)

WizParked ==
    /\ currentImport = NoImport /\ mountProvider = ""
    /\ modalModel = Unmounted
    /\ debouncedEmail = "" /\ cancelEmail = "" /\ probes = 0
    /\ sub = NoSubmit /\ created = 0 /\ listed = FALSE /\ createSent = FALSE
    /\ closedBy = "" /\ confirmOpen = FALSE /\ effect = NoEffect

\* line 115
isReconnectMode == currentImport.ID # ""
\* onClose has been called: the modal is gone
closed == closedBy # ""

\* useState's initial value (lines 126-143); x || y is y when x is '' or absent.
\* A port the props give as a number is written as its decimal string.
InitialModel(p) ==
    [step |-> "START",
     importID |-> currentImport.ID,
     email |-> currentImport.Email,
     password |-> "",
     imap |-> IF currentImport.ImapHost # "" THEN currentImport.ImapHost
              ELSE getDefaultImap(p),
     port |-> IF currentImport.ImapPort # 0 THEN PortToString(currentImport.ImapPort)
              ELSE getDefaultPort(p),
     errorCode |-> 0,
     errorLabel |-> "",
     providerFolders |-> <<>>,
     selectedPeriod |-> "defaultPeriod",
     payload |-> "Mapping:[]",
     isPayloadInvalid |-> FALSE]

\* The wizard after its first render. The provider prop is read by the
\* initial value alone, so the running wizard does not keep it.
WizInit ==
    /\ currentImport \in {NoImport, ExistingImport}
    /\ mountProvider = ""
    /\ \E p \in Providers : modalModel = InitialModel(p)
    /\ debouncedEmail = currentImport.Email
    /\ cancelEmail = currentImport.Email
    /\ probes = 0
    /\ sub = NoSubmit
    /\ created = 0
    /\ listed = FALSE
    /\ createSent = FALSE
    /\ closedBy = ""
    /\ confirmOpen = FALSE
    /\ effect = NoEffect

\* a mutation: any captured error counts as an IMAP connection error
hasIMAPErrorOnAnyError == modalModel.errorCode # 0
\* line 150
hasIMAPError == modalModel.errorCode = IMAP_CONNECTION_ERROR
\* line 148
invalidPortError == modalModel.port # "" /\ ~isNumber(modalModel.port)
\* useLoading: the flag is set while a request the wizard started is in flight
loading == sub.kind # "none" \/ probes > 0

\* setModalModel: a state update of an unmounted component is dropped; the
\* Cancel button's handler is re-created only when the step changes (line 381)
SetModalModel(m) ==
    IF closed
    THEN UNCHANGED <<modalModel, cancelEmail>>
    ELSE /\ modalModel' = m
         /\ cancelEmail' = IF m.step # modalModel.step THEN m.email ELSE cancelEmail

\* onClose: the modal unmounts and its state is discarded; requests in flight
\* are not cancelled, a probe's answer no longer has anything to set
OnClose(by) ==
    /\ closedBy' = by
    /\ modalModel' = Unmounted
    /\ cancelEmail' = ""
    /\ debouncedEmail' = ""
    /\ probes' = 0
    /\ confirmOpen' = FALSE
uiVars == <<closedBy, modalModel, cancelEmail, debouncedEmail, probes, confirmOpen>>

\* the user can act on the form: it is mounted and no dialog covers it
Interactive == ~closed /\ ~confirmOpen

-----------------------------------------------------------------------------
(* The user edits the form (ImportStartStep, ImportPrepareStep: updateModalModel) *)

EditEmail ==
    /\ Interactive /\ modalModel.step = "START"
    /\ \E e \in TypedEmails :
         /\ e # modalModel.email
         /\ SetModalModel([modalModel EXCEPT !.email = e])
    /\ effect' = NoEffect
    /\ UNCHANGED <<frameVars, debouncedEmail, probes, sub, created, listed, createSent,
                   closedBy, confirmOpen>>

EditPassword ==
    /\ Interactive /\ modalModel.step = "START"
    /\ \E p \in TypedPasswords :
         /\ p # modalModel.password
         /\ SetModalModel([modalModel EXCEPT !.password = p])
    /\ effect' = NoEffect
    /\ UNCHANGED <<frameVars, debouncedEmail, probes, sub, created, listed, createSent,
                   closedBy, confirmOpen>>

EditImap ==
    /\ Interactive /\ modalModel.step = "START"
    /\ \E h \in TypedImaps :
         /\ h # modalModel.imap
         /\ SetModalModel([modalModel EXCEPT !.imap = h])
    /\ effect' = NoEffect
    /\ UNCHANGED <<frameVars, debouncedEmail, probes, sub, created, listed, createSent,
                   closedBy, confirmOpen>>

EditPort ==
    /\ Interactive /\ modalModel.step = "START"
    /\ \E p \in TypedPorts :
         /\ p # modalModel.port
         /\ SetModalModel([modalModel EXCEPT !.port = p])
    /\ effect' = NoEffect
    /\ UNCHANGED <<frameVars, debouncedEmail, probes, sub, created, listed, createSent,
                   closedBy, confirmOpen>>

\* the PREPARE step's form: the period, the mapping and its validity
PrepareEdits == {<<"defaultPeriod", "Mapping:[]">>, <<"LAST_MONTH", "Mapping:edited">>}
EditPrepare ==
    /\ Interactive /\ modalModel.step = "PREPARE"
    /\ \E edit \in PrepareEdits, invalid \in BOOLEAN :
         LET m == [modalModel EXCEPT !.selectedPeriod = edit[1],
                                     !.payload = edit[2],
                                     !.isPayloadInvalid = invalid]
         IN  m # modalModel /\ SetModalModel(m)
    /\ effect' = NoEffect
    /\ UNCHANGED <<frameVars, debouncedEmail, probes, sub, created, listed, createSent,
                   closedBy, confirmOpen>>

-----------------------------------------------------------------------------
(* The auth probe: useDebounceInput, the effect of lines 434-442, checkAuth *)

\* The debounced email catches up with the field and the effect runs.
DebounceEmail ==
    /\ ~closed
    /\ debouncedEmail # modalModel.email
    /\ debouncedEmail' = modalModel.email
    /\ IF /\ modalModel.step = "START"
          /\ modalModel.imap = "" /\ modalModel.port = ""
          /\ modalModel.email # "" /\ validateEmailAddress(modalModel.email)
       THEN probes < MaxProbes /\ probes' = probes + 1
       ELSE UNCHANGED probes
    /\ effect' = NoEffect
    /\ UNCHANGED <<frameVars, modalModel, cancelEmail, sub, created, listed, createSent,
                   closedBy, confirmOpen>>

\* getAuthenticationMethod answers (lines 165-173): x || y keeps y when x is
\* absent
CheckAuthAnswers ==
    /\ probes > 0
    /\ probes' = probes - 1
    /\ \E ImporterID \in {""} \cup serverImports,
          ImapHost \in {"", "imap.x.org"},
          ImapPort \in {"", "993"} :
         SetModalModel(
           [modalModel EXCEPT
              !.importID = IF ImporterID # "" THEN ImporterID ELSE modalModel.importID,
              !.imap = IF ImapHost # "" THEN ImapHost ELSE modalModel.imap,
              !.port = IF ImapPort # "" THEN ImapPort ELSE modalModel.port])
    /\ effect' = NoEffect
    /\ UNCHANGED <<frameVars, debouncedEmail, sub, created, listed, createSent,
                   closedBy, confirmOpen>>

\* getAuthenticationMethod fails: checkAuth rejects, nothing is set
CheckAuthFails ==
    /\ probes > 0
    /\ probes' = probes - 1
    /\ \E error \in ThrownErrors :
         effect' = [NoEffect EXCEPT !.op = "checkAuth", !.thrown = TRUE, !.error = error]
    /\ UNCHANGED <<frameVars, modalModel, cancelEmail, debouncedEmail, sub, created,
                   listed, createSent, closedBy, confirmOpen>>

-----------------------------------------------------------------------------
(* handleSubmit (lines 353-373) and the operations it starts *)

\* submitRenderer (lines 383-432): the submit control of the current step is
\* disabled while loading, and in START while a field is missing or the port
\* is no number, in PREPARE while the payload is invalid
disabledStartStep ==
    \/ modalModel.email = "" \/ modalModel.password = ""
    \/ modalModel.imap = "" \/ modalModel.port = "" \/ invalidPortError
SubmitEnabled ==
    /\ Interactive
    /\ ~loading
    /\ CASE modalModel.step = "START" -> ~disabledStartStep
         [] modalModel.step = "PREPARE" -> ~modalModel.isPayloadInvalid
         [] OTHER -> FALSE

\* a mutation: the START case falls through to the PREPARE case
handleSubmitFallsThrough ==
    CASE modalModel.step = "START" -> "launchImport"
      [] modalModel.step = "PREPARE" -> "launchImport"
      [] modalModel.step = "STARTED" -> "onClose"
\* the switch of handleSubmit (lines 356-372)
handleSubmit ==
    CASE modalModel.step = "START" ->
           IF isReconnectMode THEN "resumeImporter" ELSE "submitAuthentication"
      [] modalModel.step = "PREPARE" -> "launchImport"
      [] modalModel.step = "STARTED" -> "onClose"

\* what the operation's closure holds of the render it was started from
Snapshot(kind, pc) ==
    [kind |-> kind, pc |-> pc,
     importID |-> modalModel.importID, email |-> modalModel.email,
     imap |-> modalModel.imap, port |-> modalModel.port,
     allowSelfSigned |-> IF hasIMAPError THEN 1 ELSE 0,
     importer |-> NoImport, done |-> <<>>]

\* a mutation: an import ID in hand does not stop createImport
submitAuthenticationAlwaysCreates ==
    IF modalModel.imap # "" /\ modalModel.port # "" THEN "createImport"
    ELSE IF modalModel.importID # "" THEN "getImport"
    ELSE "none"
\* submitAuthentication's first request (lines 216, 236, 275)
submitAuthentication ==
    IF modalModel.importID # "" THEN "getImport"
    ELSE IF modalModel.imap # "" /\ modalModel.port # "" THEN "createImport"
    ELSE "none"

\* START, not reconnecting: submitAuthentication (lines 214-279)
SubmitStart ==
    /\ SubmitEnabled /\ handleSubmit = "submitAuthentication"
    /\ IF submitAuthentication = "none"
       THEN /\ SetModalModel([modalModel EXCEPT !.imap = ""])
            /\ UNCHANGED sub
       ELSE /\ sub' = Snapshot("submitAuthentication", submitAuthentication)
            /\ UNCHANGED <<modalModel, cancelEmail>>
    /\ createSent' = (createSent \/ submitAuthentication = "createImport")
    /\ effect' = NoEffect
    /\ UNCHANGED <<frameVars, debouncedEmail, probes, created, listed,
                   closedBy, confirmOpen>>

\* a mutation: resumeImport is sent without waiting for updateImport
resumeImporterSkipsUpdate == "resumeImport"
\* resumeImporter's first request (line 312)
resumeImporter == "updateImport"

\* START, reconnecting: resumeImporter (lines 311-331)
SubmitReconnect ==
    /\ SubmitEnabled /\ handleSubmit = "resumeImporter"
    /\ sub' = Snapshot("resumeImporter", resumeImporter)
    /\ effect' = NoEffect
    /\ UNCHANGED <<frameVars, modalModel, cancelEmail, debouncedEmail, probes,
                   created, listed, createSent, closedBy, confirmOpen>>

\* PREPARE: launchImport (lines 299-309)
SubmitPrepare ==
    /\ SubmitEnabled /\ handleSubmit = "launchImport"
    /\ sub' = Snapshot("launchImport", "startImportTask")
    /\ effect' = NoEffect
    /\ UNCHANGED <<frameVars, modalModel, cancelEmail, debouncedEmail, probes,
                   created, listed, createSent, closedBy, confirmOpen>>

\* STARTED: onClose() and nothing else (lines 367-369)
SubmitStarted ==
    /\ Interactive /\ handleSubmit = "onClose"
    /\ OnClose("handleSubmit")
    /\ effect' = NoEffect
    /\ UNCHANGED <<frameVars, sub, created, listed, createSent>>

\* STARTED: the "Check import progress" button (lines 412-419) and the step's
\* own close control (line 484) call onClose too
CloseStarted ==
    /\ Interactive /\ modalModel.step = "STARTED"
    /\ OnClose("ImportStartedStep")
    /\ effect' = NoEffect
    /\ UNCHANGED <<frameVars, sub, created, listed, createSent>>

-----------------------------------------------------------------------------
(* submitAuthentication's requests *)

\* a mutation: the request that has just answered is sent once more
AwaitRepeats(pc, finished) == [sub EXCEPT !.done = Append(sub.done, finished)]
\* the next await of the operation in flight
Await(pc, finished) == [sub EXCEPT !.pc = pc, !.done = Append(sub.done, finished)]

\* getImport answers (line 218); getMailImportData is sent next (line 220)
GetImportAnswers ==
    /\ sub.kind = "submitAuthentication" /\ sub.pc = "getImport"
    /\ sub.importID \in serverImports
    /\ sub' = [Await("getMailImportData", "getImport")
                 EXCEPT !.importer = ImporterOfID(sub.importID)]
    /\ listed' = TRUE
    /\ UNCHANGED createSent
    /\ effect' = NoEffect
    /\ UNCHANGED <<frameVars, uiVars, created>>

\* createImport answers with a new importer's ID (lines 238-255); the event
\* manager is called next (line 256). The Importer handed to moveToPrepareStep
\* is built from the closure's model (lines 260-266).
CreateImportAnswers ==
    /\ sub.kind = "submitAuthentication" /\ sub.pc = "createImport"
    /\ created < MaxImports
    /\ created' = created + 1
    /\ sub' = [Await("call", "createImport")
                 EXCEPT !.importer = [ID |-> NewImporterID(created + 1),
                                      Email |-> sub.email,
                                      ImapHost |-> sub.imap,
                                      ImapPort |-> parseInt(sub.port)]]
    /\ effect' = NoEffect
    /\ UNCHANGED <<frameVars, uiVars, listed, createSent>>

\* the event manager's call() resolves; getMailImportData is sent next (line 258)
AuthCallReturns ==
    /\ sub.kind = "submitAuthentication" /\ sub.pc = "call"
    /\ sub' = Await("getMailImportData", "call")
    /\ listed' = TRUE
    /\ UNCHANGED createSent
    /\ effect' = NoEffect
    /\ UNCHANGED <<frameVars, uiVars, created>>

\* a mutation: the folders are stored as the server listed them
moveToPrepareStepUnsorted(Importer, providerFolders) ==
    [modalModel EXCEPT
       !.providerFolders = providerFolders,
       !.importID = Importer.ID,
       !.email = Importer.Email,
       !.imap = Importer.ImapHost,
       !.port = PortToString(Importer.ImapPort),
       !.step = "PREPARE",
       !.errorCode = 0,
       !.errorLabel = ""]
\* lines 176-188: the model moveToPrepareStep sets
moveToPrepareStep(Importer, providerFolders) ==
    [modalModel EXCEPT
       !.providerFolders = SortFolders(providerFolders),
       !.importID = Importer.ID,
       !.email = Importer.Email,
       !.imap = Importer.ImapHost,
       !.port = PortToString(Importer.ImapPort),
       !.step = "PREPARE",
       !.errorCode = 0,
       !.errorLabel = ""]

\* getMailImportData answers with the folders (lines 220-229, 258-268)
GetMailImportDataAnswers ==
    /\ sub.kind = "submitAuthentication" /\ sub.pc = "getMailImportData"
    /\ \E Folders \in ServerFolderLists :
         /\ SetModalModel(moveToPrepareStep(sub.importer, Folders))
         /\ effect' = [NoEffect EXCEPT !.op = "submitAuthentication", !.folders = Folders]
    /\ sub' = NoSubmit
    /\ UNCHANGED <<frameVars, debouncedEmail, probes, created, listed, createSent,
                   closedBy, confirmOpen>>

\* a mutation: capturing an error empties the password field
handleSubmitStartErrorClearsPassword(error) ==
    LET Code == IF error.hasData THEN error.Code ELSE 0
        Error == IF error.hasData THEN error.Error ELSE ""
    IN  IF Code \in KnownImportErrors
        THEN /\ SetModalModel([modalModel EXCEPT !.errorCode = Code, !.errorLabel = Error,
                                                 !.password = ""])
             /\ effect' = [NoEffect EXCEPT !.op = "submitAuthentication", !.thrown = TRUE,
                                           !.error = error]
        ELSE /\ effect' = [NoEffect EXCEPT !.op = "submitAuthentication", !.thrown = TRUE,
                                           !.error = error, !.reported = 1]
             /\ UNCHANGED <<modalModel, cancelEmail>>
\* a mutation: a captured error is passed on to the generic handler as well
handleSubmitStartErrorAlwaysReports(error) ==
    LET Code == IF error.hasData THEN error.Code ELSE 0
        Error == IF error.hasData THEN error.Error ELSE ""
    IN  /\ IF Code \in KnownImportErrors
           THEN SetModalModel([modalModel EXCEPT !.errorCode = Code, !.errorLabel = Error])
           ELSE UNCHANGED <<modalModel, cancelEmail>>
        /\ effect' = [NoEffect EXCEPT !.op = "submitAuthentication", !.thrown = TRUE,
                                      !.error = error, !.reported = 1]
\* lines 190-212; the destructuring default gives Code 0 and Error '' to an
\* error without data
handleSubmitStartError(error) ==
    LET Code == IF error.hasData THEN error.Code ELSE 0
        Error == IF error.hasData THEN error.Error ELSE ""
    IN  IF Code \in KnownImportErrors
        THEN /\ SetModalModel([modalModel EXCEPT !.errorCode = Code, !.errorLabel = Error])
             /\ effect' = [NoEffect EXCEPT !.op = "submitAuthentication", !.thrown = TRUE,
                                           !.error = error]
        ELSE /\ effect' = [NoEffect EXCEPT !.op = "submitAuthentication", !.thrown = TRUE,
                                           !.error = error, !.reported = 1]
             /\ UNCHANGED <<modalModel, cancelEmail>>

\* any awaited request of submitAuthentication throws: the catch blocks of lines
\* 230-232 and 269-271
AuthRequestFails ==
    /\ sub.kind = "submitAuthentication"
    /\ \E error \in ThrownErrors : handleSubmitStartError(error)
    /\ sub' = NoSubmit
    /\ UNCHANGED <<frameVars, debouncedEmail, probes, created, listed, createSent,
                   closedBy, confirmOpen>>

-----------------------------------------------------------------------------
(* launchImport's requests (lines 299-309) *)

\* startImportTask answers; the event manager is called next (line 303)
StartImportTaskAnswers ==
    /\ sub.kind = "launchImport" /\ sub.pc = "startImportTask"
    /\ sub' = Await("call", "startImportTask")
    /\ effect' = NoEffect
    /\ UNCHANGED <<frameVars, uiVars, created, listed, createSent>>

\* a mutation: the step is set without waiting for the refresh
launchImportSetsStepEarly == {"startImportTask", "call"}
\* the await after which launchImport sets the step (lines 303-308)
launchImportSetsStepAfter == {"call"}

\* the awaited request resolves: the step becomes STARTED (lines 305-308)
LaunchCallReturns ==
    /\ sub.kind = "launchImport" /\ sub.pc \in launchImportSetsStepAfter
    /\ SetModalModel([modalModel EXCEPT !.step = "STARTED"])
    /\ sub' = NoSubmit
    /\ effect' = NoEffect
    /\ UNCHANGED <<frameVars, debouncedEmail, probes, created, listed, createSent,
                   closedBy, confirmOpen>>

\* startImportTask or call() throws: launchImport rejects, nothing is set
LaunchRequestFails ==
    /\ sub.kind = "launchImport"
    /\ \E error \in ThrownErrors :
         effect' = [NoEffect EXCEPT !.op = "launchImport", !.thrown = TRUE, !.error = error]
    /\ sub' = NoSubmit
    /\ UNCHANGED <<frameVars, uiVars, created, listed, createSent>>

-----------------------------------------------------------------------------
(* resumeImporter's requests (lines 311-331) *)

\* updateImport answers; resumeImport is sent next (line 323)
UpdateImportAnswers ==
    /\ sub.kind = "resumeImporter" /\ sub.pc = "updateImport"
    /\ sub.importID \in serverImports
    /\ sub' = Await("resumeImport", "updateImport")
    /\ effect' = NoEffect
    /\ UNCHANGED <<frameVars, uiVars, created, listed, createSent>>

\* resumeImport answers; the event manager is called next (line 329)
ResumeImportAnswers ==
    /\ sub.kind = "resumeImporter" /\ sub.pc = "resumeImport"
    /\ sub' = Await("call", "resumeImport")
    /\ effect' = NoEffect
    /\ UNCHANGED <<frameVars, uiVars, created, listed, createSent>>

\* the event manager's call() resolves: onClose() (line 330)
ResumeCallReturns ==
    /\ sub.kind = "resumeImporter" /\ sub.pc = "call"
    /\ IF closed THEN UNCHANGED uiVars ELSE OnClose("resumeImporter")
    /\ sub' = NoSubmit
    /\ effect' = NoEffect
    /\ UNCHANGED <<frameVars, created, listed, createSent>>

\* updateImport, resumeImport or call() throws: resumeImporter rejects
ResumeRequestFails ==
    /\ sub.kind = "resumeImporter"
    /\ \E error \in ThrownErrors :
         effect' = [NoEffect EXCEPT !.op = "resumeImporter", !.thrown = TRUE,
                                   !.error = error]
    /\ sub' = NoSubmit
    /\ UNCHANGED <<frameVars, uiVars, created, listed, createSent>>

-----------------------------------------------------------------------------
(* handleCancel (lines 333-351) and the discard dialog *)

\* handleCancel as the render that created it sees the model: `email` is the
\* modalModel.email of that render, `via` the control that called it
handleCancel(email, via) ==
    IF email = "" \/ modalModel.step = "STARTED" \/ isReconnectMode
    THEN OnClose(via)
    ELSE /\ confirmOpen' = TRUE
         /\ UNCHANGED <<closedBy, modalModel, cancelEmail, debouncedEmail, probes>>

\* FormModal's onClose (line 451): the handleCancel of the current render
CancelByModalClose ==
    /\ Interactive
    /\ handleCancel(modalModel.email, "handleCancel:onClose")
    /\ effect' = NoEffect
    /\ UNCHANGED <<frameVars, sub, created, listed, createSent>>

\* the footer's Cancel/Close button (lines 375-381): the handleCancel of the
\* render in which the step last changed
CancelByButton ==
    /\ Interactive
    /\ handleCancel(cancelEmail, "handleCancel:button")
    /\ effect' = NoEffect
    /\ UNCHANGED <<frameVars, sub, created, listed, createSent>>

\* ConfirmModal's onConfirm={onClose} (line 341)
ConfirmDiscard ==
    /\ ~closed /\ confirmOpen
    /\ OnClose("ConfirmModal")
    /\ effect' = NoEffect
    /\ UNCHANGED <<frameVars, sub, created, listed, createSent>>

\* ConfirmModal's "Continue import" (line 343)
ContinueImport ==
    /\ ~closed /\ confirmOpen
    /\ confirmOpen' = FALSE
    /\ effect' = NoEffect
    /\ UNCHANGED <<frameVars, closedBy, modalModel, cancelEmail, debouncedEmail, probes,
                   sub, created, listed, createSent>>

WizNext ==
    \/ EditEmail \/ EditPassword \/ EditImap \/ EditPort \/ EditPrepare
    \/ DebounceEmail \/ CheckAuthAnswers \/ CheckAuthFails
    \/ SubmitStart \/ SubmitReconnect \/ SubmitPrepare \/ SubmitStarted \/ CloseStarted
    \/ GetImportAnswers \/ CreateImportAnswers \/ AuthCallReturns
    \/ GetMailImportDataAnswers \/ AuthRequestFails
    \/ StartImportTaskAnswers \/ LaunchCallReturns \/ LaunchRequestFails
    \/ UpdateImportAnswers \/ ResumeImportAnswers \/ ResumeCallReturns
    \/ ResumeRequestFails
    \/ CancelByModalClose \/ CancelByButton \/ ConfirmDiscard \/ ContinueImport

-----------------------------------------------------------------------------
(* Specifications *)

InitEvents == EvInit /\ SortParked /\ WizParked
NextEvents == EvNext /\ UNCHANGED <<sortVars, wizVars>>
SpecEvents == InitEvents /\ [][NextEvents]_vars

InitFolders == SortInit /\ EvParked /\ WizParked
NextFolders == SortNext /\ UNCHANGED <<evVars, wizVars>>
SpecFolders == InitFolders /\ [][NextFolders]_vars

Init == WizInit /\ EvParked /\ SortParked
Next == WizNext
Spec == Init /\ [][Next]_vars

\* The mount alone: ImportMailModal is rendered with any provider and any
\* currentImport, one whose host, port or email is missing included.
MountImports ==
    {NoImport} \cup [ID : {ExistingImport.ID}, Email : {"", ExistingImport.Email},
                     ImapHost : {"", ExistingImport.ImapHost},
                     ImapPort : {0, ExistingImport.ImapPort, 993}]
InitMount ==
    /\ EvParked /\ SortParked
    /\ currentImport \in MountImports /\ mountProvider \in Providers
    /\ modalModel = Unmounted
    /\ debouncedEmail = "" /\ cancelEmail = "" /\ probes = 0
    /\ sub = NoSubmit /\ created = 0 /\ listed = FALSE /\ createSent = FALSE
    /\ closedBy = "" /\ confirmOpen = FALSE /\ effect = NoEffect
\* the first render (lines 126-147)
Mount ==
    /\ modalModel = Unmounted
    /\ modalModel' = InitialModel(mountProvider)
    /\ debouncedEmail' = currentImport.Email
    /\ cancelEmail' = currentImport.Email
    /\ UNCHANGED <<frameVars, probes, sub, created, listed, createSent, closedBy,
                   confirmOpen, effect>>
NextMount == Mount
SpecMount == InitMount /\ [][NextMount]_vars

-----------------------------------------------------------------------------
(* Claims about getPaginatedEventsByUID (checked under SpecEvents) *)

\* the server answers with full pages followed by one short (possibly empty) page
ConformingServer == srvLast < pageSize

\* the first n events of a server whose pages before the short one are full
EventsUpTo(n) == [k \in 1..n |-> <<(k - 1) \div pageSize, ((k - 1) % pageSize) + 1>>]
\* the page numbers 0..m, in order
PagesUpTo(m) == [k \in 1..(m + 1) |-> k - 1]

\* C1 as stated: for a server whose pages before the last are full, the call
\* returns the events of all pages up to and including the first short page, and
\* requests exactly those pages.
C1_AsStated ==
    (evPc = "returned" /\ ConformingServer) =>
        /\ result = EventsUpTo(srvFull * pageSize + srvLast)
        /\ requests = PagesUpTo(srvFull)

\* C1 amended: that holds when the first short page is among the first max
\* pages; otherwise the call returns the events of the first max (full) pages
\* and requests exactly those.
C1_ConcatUpToShortPageOrCap ==
    (evPc = "returned" /\ ConformingServer) =>
        IF srvFull < max
        THEN /\ result = EventsUpTo(srvFull * pageSize + srvLast)
             /\ requests = PagesUpTo(srvFull)
        ELSE /\ result = EventsUpTo(max * pageSize)
             /\ requests = PagesUpTo(max - 1)

C1_Witness ==
    /\ evPc = "returned" /\ ConformingServer
    /\ srvFull >= 2 /\ srvFull < max /\ srvLast > 0
    /\ Len(result) = srvFull * pageSize + srvLast

\* C2 as stated: no call issues more than 100 page requests.
C2_AsStated == Len(requests) <= 100

\* C2 amended: no call issues more than max page requests, max being the
\* caller's argument, 100 when the caller passes none; whatever the server
\* returns.
C2_AtMostMaxRequests == Len(requests) <= max

C2_Witness ==
    /\ evPc = "returned" /\ max = MAX_ITERATIONS
    /\ srvFull >= max /\ Len(requests) = MAX_ITERATIONS

-----------------------------------------------------------------------------
(* Claims about destinationFoldersFirst (checked under SpecFolders) *)

Mapped(f) == f.DestinationFolder # ""
\* the folders of s that satisfy Test, in the order of s
RECURSIVE MappedOf(_)
MappedOf(s) ==
    IF s = <<>> THEN <<>>
    ELSE IF Mapped(Head(s)) THEN <<Head(s)>> \o MappedOf(Tail(s))
    ELSE MappedOf(Tail(s))
Count(s, f) == Cardinality({i \in 1..Len(s) : s[i] = f})

\* C3 as stated: after the sort every mapped folder precedes every unmapped one,
\* and two folders of the same status are in ascending order of Source.
C3_AsStated ==
    sortPc = "sorted" =>
        \A i, j \in 1..Len(sorted) :
            i < j =>
                /\ ~(~Mapped(sorted[i]) /\ Mapped(sorted[j]))
                /\ (Mapped(sorted[i]) = Mapped(sorted[j]))
                      => ~StrLess(sorted[j].Source, sorted[i].Source)

\* C3 amended: after the sort (a rearrangement of the server's list) every
\* mapped folder precedes every unmapped one and two unmapped folders are in
\* ascending order of Source; two mapped folders compare equal and keep the
\* order the server gave them.
C3_MappedFirstUnmappedBySource ==
    sortPc = "sorted" =>
        /\ Len(sorted) = Len(folders)
        /\ \A f \in ImportedMailFolder : Count(sorted, f) = Count(folders, f)
        /\ \A i, j \in 1..Len(sorted) :
              i < j =>
                /\ ~(~Mapped(sorted[i]) /\ Mapped(sorted[j]))
                /\ (~Mapped(sorted[i]) /\ ~Mapped(sorted[j]))
                      => ~StrLess(sorted[j].Source, sorted[i].Source)
                /\ (Mapped(sorted[i]) /\ Mapped(sorted[j]))
                      => destinationFoldersFirst(sorted[i], sorted[j]) = 0
        /\ MappedOf(sorted) = MappedOf(folders)

C3_Witness ==
    /\ sortPc = "sorted" /\ sorted # folders /\ Len(folders) = 3
    /\ ~Mapped(folders[1]) /\ Mapped(folders[2]) /\ Mapped(folders[3])
    /\ StrLess(folders[3].Source, folders[2].Source)
    /\ sorted = <<folders[2], folders[3], folders[1]>>

-----------------------------------------------------------------------------
(* Claims about the wizard (checked under Spec) *)

\* handleCancel closes the wizard in this step, no dialog shown
ClosesAtOnce == ~closed /\ closedBy' \in {"handleCancel:onClose", "handleCancel:button"}
\* handleCancel shows the discard dialog in this step
ShowsDialog == ~confirmOpen /\ confirmOpen'

\* C4, for a wizard that is not reconnecting: a cancel while email is empty
\* closes at once, the dialog is shown only when email is set; a cancel while
\* email is set and the step is not STARTED does not close at once, and
\* ConfirmModal closes the wizard only from the dialog it shows.
C4_ConfirmBeforeDiscard ==
    [][ /\ ShowsDialog => modalModel.email # ""
        /\ (ClosesAtOnce /\ ~isReconnectMode)
              => (modalModel.email = "" \/ modalModel.step = "STARTED")
        /\ (~closed /\ closedBy' = "ConfirmModal") => confirmOpen ]_vars

\* The email is typed into a new import's START form and the footer's Cancel
\* button still holds the handleCancel of the first render.
C4_Witness ==
    /\ ~closed /\ ~isReconnectMode /\ Interactive
    /\ modalModel.step = "START"
    /\ modalModel.email # "" /\ cancelEmail = ""

\* the Code handleSubmitStartError reads off an error (line 191)
CodeOf(error) == IF error.hasData THEN error.Code ELSE 0
\* submitAuthentication's catch block ran in this step
AuthSubmitFails == effect'.op = "submitAuthentication" /\ effect'.thrown

\* C5: when an authentication submit fails with the code AUTHENTICATION_ERROR,
\* IMAP_CONNECTION_ERROR or RATE_LIMIT_EXCEEDED, the code and its label are
\* stored in errorCode/errorLabel and the generic handler is not called; with
\* any other error, one without data included, the generic handler is called
\* exactly once and errorCode/errorLabel keep their values.
C5_KnownErrorsCapturedOthersReported ==
    [][ AuthSubmitFails =>
          /\ sub.kind = "submitAuthentication" /\ sub'.kind = "none"
          /\ IF CodeOf(effect'.error) \in
                  {AUTHENTICATION_ERROR, IMAP_CONNECTION_ERROR, RATE_LIMIT_EXCEEDED}
             THEN /\ effect'.reported = 0
                  /\ ~closed => /\ modalModel'.step = "START"
                                /\ modalModel'.errorCode = effect'.error.Code
                                /\ modalModel'.errorLabel = effect'.error.Error
             ELSE /\ effect'.reported = 1
                  /\ ~closed => /\ modalModel'.errorCode = modalModel.errorCode
                                /\ modalModel'.errorLabel = modalModel.errorLabel ]_vars

\* A rate-limited authentication submit has just been captured.
C5_Witness ==
    /\ ~closed /\ modalModel.step = "START"
    /\ effect.op = "submitAuthentication" /\ effect.thrown /\ effect.reported = 0
    /\ effect.error.Code = RATE_LIMIT_EXCEEDED
    /\ modalModel.errorCode = RATE_LIMIT_EXCEEDED
    /\ modalModel.errorLabel = "Too many requests"

\* the wizard's importID names an importer the server holds
ImportIDHeld == ~closed => (modalModel.importID = "" \/ modalModel.importID \in serverImports)
\* the operation in flight sends the folder-listing request in this step
SendsGetMailImportData == sub.pc # "getMailImportData" /\ sub'.pc = "getMailImportData"

\* C6 as stated: importID is empty or names an importer the server holds; and
\* an authentication submit started with an importID in hand sends no
\* folder-listing request once one has been sent before.
C6_AsStated ==
    [][ /\ ImportIDHeld /\ ImportIDHeld'
        /\ (listed /\ sub.kind = "submitAuthentication" /\ sub.importID # "")
              => ~SendsGetMailImportData ]_vars

\* C6 amended: importID is empty or names an importer the server holds; and
\* an authentication submit started with an importID in hand creates no
\* importer: it looks that importer up (getImport) and then sends the
\* folder-listing request (getMailImportData) for it.
C6_ImportIDHeldAndLookedUp ==
    /\ ImportIDHeld
    /\ (sub.kind = "submitAuthentication" /\ sub.importID # "") =>
          /\ sub.importID \in serverImports
          /\ \/ sub.pc = "getImport" /\ sub.done = <<>>
             \/ /\ sub.pc = "getMailImportData" /\ sub.done = <<"getImport">>
                /\ sub.importer.ID = sub.importID

\* The probe gave the importID of an importer created earlier in the session;
\* the submit has looked it up and its folder-listing request is in flight.
C6_Witness ==
    /\ sub.kind = "submitAuthentication" /\ sub.importID # ""
    /\ sub.pc = "getMailImportData" /\ sub.done = <<"getImport">>
    /\ created > 0 /\ sub.importID = NewImporterID(1)

\* s is in the order of destinationFoldersFirst: no folder is followed by one
\* that the comparison puts before it
InOrder(s) == \A i, j \in 1..Len(s) : i < j => destinationFoldersFirst(s[i], s[j]) <= 0
\* s is a rearrangement of t
SameFolders(s, t) ==
    /\ Len(s) = Len(t)
    /\ \A f \in ServerFolders : Count(s, f) = Count(t, f)
\* the lookups after which submitAuthentication lists the folders
Lookups == {<<"getImport">>, <<"createImport", "call">>}

\* C7: the step changes from START to PREPARE only in the step in which
\* getMailImportData answers, after getImport, or createImport and the event
\* refresh, has succeeded; providerFolders is then the server's list in the
\* order of destinationFoldersFirst and errorCode/errorLabel are 0 and ''. A
\* failing authentication submit leaves the step START.
C7_PrepareAfterLookupAndListing ==
    [][ /\ (modalModel.step = "START" /\ modalModel'.step = "PREPARE") =>
              /\ sub.kind = "submitAuthentication" /\ sub.pc = "getMailImportData"
              /\ sub.done \in Lookups
              /\ effect'.op = "submitAuthentication" /\ ~effect'.thrown
              /\ InOrder(modalModel'.providerFolders)
              /\ SameFolders(modalModel'.providerFolders, effect'.folders)
              /\ modalModel'.errorCode = 0 /\ modalModel'.errorLabel = ""
        /\ (AuthSubmitFails /\ ~closed) =>
              modalModel.step = "START" /\ modalModel'.step = "START" ]_vars

\* The wizard has just moved to PREPARE with
\* a folder list the sort had to rearrange.
C7_Witness ==
    /\ ~closed /\ modalModel.step = "PREPARE"
    /\ effect.op = "submitAuthentication" /\ ~effect.thrown
    /\ Len(effect.folders) = 2 /\ modalModel.providerFolders # effect.folders
    /\ modalModel.errorCode = 0

\* launchImport rejected in this step
LaunchFails == effect'.op = "launchImport" /\ effect'.thrown

\* C8: the step changes from PREPARE to STARTED only in the step in which the
\* event refresh (call) completes, startImportTask having succeeded before it;
\* when startImportTask or the refresh fails the step stays PREPARE.
C8_StartedAfterTaskAndRefresh ==
    [][ /\ (modalModel.step = "PREPARE" /\ modalModel'.step = "STARTED") =>
              /\ sub.kind = "launchImport" /\ sub.pc = "call"
              /\ sub.done = <<"startImportTask">>
              /\ sub'.kind = "none"
        /\ (LaunchFails /\ ~closed) =>
              /\ sub.kind = "launchImport" /\ sub'.kind = "none"
              /\ modalModel.step = "PREPARE" /\ modalModel'.step = "PREPARE" ]_vars

\* launchImport has finished and the wizard shows STARTED.
C8_Witness ==
    /\ ~closed /\ modalModel.step = "STARTED"
    /\ sub.kind = "none"

\* C9: the step changes only from START to PREPARE and from PREPARE to
\* STARTED; while the step is STARTED no request is started, and a submit in
\* STARTED only calls onClose.
C9_StepsForwardStartedTerminal ==
    [][ /\ (~closed' /\ modalModel'.step # modalModel.step) =>
              \/ modalModel.step = "START" /\ modalModel'.step = "PREPARE"
              \/ modalModel.step = "PREPARE" /\ modalModel'.step = "STARTED"
        /\ modalModel.step = "STARTED" =>
              /\ sub = NoSubmit /\ sub' = NoSubmit
              /\ probes' <= probes /\ created' = created
        /\ (~closed /\ closedBy' = "handleSubmit") =>
              /\ modalModel.step = "STARTED"
              /\ sub' = sub /\ created' = created /\ listed' = listed ]_vars

\* The submit control of the STARTED step has closed the wizard.
C9_Witness == closedBy = "handleSubmit" /\ sub = NoSubmit

\* resumeImporter rejected in this step
ResumeFails == effect'.op = "resumeImporter" /\ effect'.thrown

\* C10: reconnecting, a submit in START sends updateImport first, resumeImport
\* only after updateImport has succeeded, and the event refresh only after
\* resumeImport has succeeded; onClose is called only when the refresh
\* completes. When updateImport fails the operation ends: resumeImport is not
\* sent and the wizard is not closed.
C10_UpdateThenResume ==
    [][ /\ (isReconnectMode /\ sub.kind = "none" /\ sub'.kind # "none") =>
              /\ modalModel.step = "START"
              /\ sub'.kind = "resumeImporter" /\ sub'.pc = "updateImport"
              /\ sub'.done = <<>>
        /\ sub'.kind = "resumeImporter" =>
              /\ isReconnectMode
              /\ sub'.done = CASE sub'.pc = "updateImport" -> <<>>
                               [] sub'.pc = "resumeImport" -> <<"updateImport">>
                               [] sub'.pc = "call" -> <<"updateImport", "resumeImport">>
        /\ (~closed /\ closedBy' = "resumeImporter") =>
              /\ sub.kind = "resumeImporter" /\ sub.pc = "call"
              /\ sub.done = <<"updateImport", "resumeImport">>
        /\ ResumeFails =>
              /\ sub.kind = "resumeImporter" /\ sub'.kind = "none"
              /\ closedBy' = closedBy ]_vars

\* The reconnection has gone through: updateImport, resumeImport and the
\* refresh have succeeded and resumeImporter has closed the wizard.
C10_Witness == isReconnectMode /\ closedBy = "resumeImporter" /\ sub = NoSubmit

\* the wizard-initiated operations in flight: the submit's and the probes
InFlight == (IF sub.kind # "none" THEN 1 ELSE 0) + probes
\* a submit starts an operation in this step
StartsSubmit == sub'.kind # "none" /\ sub'.done = <<>> /\ sub' # sub

\* C11 as stated: at most one wizard-initiated remote operation (auth probe,
\* authentication submit, import launch, reconnect) is in flight at any time,
\* and no submit starts while the loading flag is set.
C11_AsStated ==
    [][ /\ InFlight <= 1 /\ InFlight' <= 1
        /\ StartsSubmit => ~loading ]_vars

\* What does hold of C11: a submit starts only while nothing is in flight, so
\* the operations of two submits never overlap; the probe is outside this.
C11_NoSubmitWhileLoading ==
    [][ StartsSubmit => (sub.kind = "none" /\ probes = 0) ]_vars

\* An authentication submit is in flight, the user has emptied imap and port
\* and typed an email the debounce has not yet passed on: the effect is about
\* to start a probe next to the submit.
C11_Witness ==
    /\ ~closed /\ sub.kind = "submitAuthentication" /\ probes = 0
    /\ modalModel.step = "START"
    /\ modalModel.imap = "" /\ modalModel.port = ""
    /\ debouncedEmail # modalModel.email /\ validateEmailAddress(modalModel.email)

\* C12 as stated: an importer is created at most once in a session; once a
\* createImport has succeeded no later submit sends createImport, and a later
\* authentication submit carries the importer's ID.
C12_AsStated ==
    [][ /\ created' <= 1
        /\ (created > 0 /\ StartsSubmit) =>
              /\ sub'.pc # "createImport"
              /\ sub'.kind = "submitAuthentication" => sub'.importID # "" ]_vars

\* createImport has succeeded, a request after it has failed, and the wizard
\* is back in START without the new importer's ID.
C12_Witness ==
    /\ ~closed /\ modalModel.step = "START" /\ sub.kind = "none"
    /\ created = 1 /\ modalModel.importID = ""
    /\ effect.op = "submitAuthentication" /\ effect.thrown

-----------------------------------------------------------------------------
(* A claim about getPaginatedEventsByUID's failures (checked under SpecEvents) *)

\* C13: when a page request fails the call rejects, in that step, with the
\* error api() threw, unchanged; a call that failed has returned nothing, and
\* the failed request is its last: nothing happens after the rejection.
C13_FailurePropagatesUnmodified ==
    [][ /\ evPc # "failed"
        /\ evPc' = "failed" =>
              /\ apiError' \in ApiErrors /\ evError' = apiError'
              /\ requests' = Append(requests, pageNumber)
              /\ Len(requests') = pageNumber + 1
        /\ evPc' = "returned" => (apiError' = "" /\ evError' = "") ]_vars

\* The third page request failed after two full pages had been collected.
C13_Witness ==
    /\ evPc = "failed" /\ evError = "NetworkError"
    /\ requests = <<0, 1, 2>> /\ Len(result) = 2 * pageSize

-----------------------------------------------------------------------------
(* A claim about the wizard's initial state (checked under SpecMount) *)

mounted == modalModel # Unmounted
\* the provider is none of those getDefaultImap and getDefaultPort name
Unrecognized(p) == p \notin {"OUTLOOK", "YAHOO"}

\* C14 as stated: in the initial state imap and port are IMAPS[YAHOO] and
\* PORTS[YAHOO] when the provider is YAHOO, and both '' when the provider is
\* absent or not a recognized one.
C14_AsStated ==
    mounted =>
        /\ mountProvider = "YAHOO" =>
              (modalModel.imap = IMAPS("YAHOO") /\ modalModel.port = PORTS("YAHOO"))
        /\ Unrecognized(mountProvider) =>
              (modalModel.imap = "" /\ modalModel.port = "")

\* C14 amended: the same, for each of the two fields, when currentImport
\* gives no value for it; a host or port that currentImport gives is the
\* initial value whatever the provider.
C14_DefaultsUnlessCurrentImport ==
    mounted =>
        /\ modalModel.imap =
              IF currentImport.ImapHost # "" THEN currentImport.ImapHost
              ELSE IF mountProvider = "YAHOO" THEN IMAPS("YAHOO")
              ELSE IF Unrecognized(mountProvider) THEN ""
              ELSE modalModel.imap
        /\ modalModel.port =
              IF currentImport.ImapPort # 0 THEN PortToString(currentImport.ImapPort)
              ELSE IF mountProvider = "YAHOO" THEN PORTS("YAHOO")
              ELSE IF Unrecognized(mountProvider) THEN ""
              ELSE modalModel.port

\* A new import mounted for YAHOO shows Yahoo's host and port.
C14_Witness ==
    /\ mounted /\ mountProvider = "YAHOO" /\ currentImport = NoImport
    /\ modalModel.imap = "imap.mail.yahoo.com" /\ modalModel.port = "993"

-----------------------------------------------------------------------------
(* More claims about the wizard (checked under Spec) *)

\* the operations handleSubmit starts
SubmitOps == {"submitAuthentication", "launchImport", "resumeImporter"}
\* a submit's operation rejected in this step
SubmitFails == effect'.thrown /\ effect'.op \in SubmitOps
\* the operation s has sent no request twice
NoRepeat(s) ==
    /\ \A i \in 1..Len(s.done) : s.done[i] # s.pc
    /\ \A i, j \in 1..Len(s.done) : i # j => s.done[i] # s.done[j]

\* C15: a failed submit leaves no request in flight and none is sent after
\* it until a submit control that is enabled is used again; and no submit
\* sends one of its requests twice.
C15_NoAutomaticRetry ==
    [][ /\ SubmitFails => (sub.kind = effect'.op /\ sub'.kind = "none")
        /\ (sub.kind = "none" /\ sub'.kind # "none") =>
              (SubmitEnabled /\ sub'.done = <<>> /\ sub'.kind = handleSubmit)
        /\ sub'.kind # "none" => NoRepeat(sub') ]_vars

\* launchImport has just failed: the wizard waits in PREPARE, nothing in flight.
C15_Witness ==
    /\ ~closed /\ modalModel.step = "PREPARE"
    /\ effect.op = "launchImport" /\ effect.thrown
    /\ sub.kind = "none" /\ probes = 0

\* the fields of the model other than errorCode and errorLabel
FrameFields ==
    {"step", "importID", "email", "password", "imap", "port", "providerFolders",
     "selectedPeriod", "payload", "isPayloadInvalid"}

\* C16: when an authentication submit fails with a known error code, step
\* stays START and every field of the model but errorCode and errorLabel
\* keeps its value, whatever the user typed while the request was in flight.
C16_KnownErrorChangesOnlyErrorFields ==
    [][ ( /\ AuthSubmitFails /\ ~closed
          /\ CodeOf(effect'.error) \in
                {AUTHENTICATION_ERROR, IMAP_CONNECTION_ERROR, RATE_LIMIT_EXCEEDED} )
        => /\ modalModel'.step = "START"
           /\ DOMAIN modalModel' = DOMAIN modalModel
           /\ \A f \in FrameFields : modalModel'[f] = modalModel[f] ]_vars

\* An IMAP connection error has just been captured and the form is still
\* filled in as the user left it.
C16_Witness ==
    /\ ~closed /\ modalModel.step = "START"
    /\ effect.op = "submitAuthentication" /\ effect.thrown
    /\ effect.error.Code = IMAP_CONNECTION_ERROR
    /\ modalModel.errorCode = IMAP_CONNECTION_ERROR
    /\ modalModel.email # "" /\ modalModel.password # ""
    /\ modalModel.imap # "" /\ modalModel.port # ""

\* a submit sends createImport in this step
SendsCreateImport == StartsSubmit /\ sub'.pc = "createImport"

\* C17: createImport is sent with AllowSelfSigned = 1 when the errorCode the
\* wizard shows at the submit is IMAP_CONNECTION_ERROR and with 0 otherwise;
\* the first createImport of a session is sent with 0.
C17_SelfSignedIffIMAPError ==
    [][ SendsCreateImport =>
          /\ sub'.kind = "submitAuthentication"
          /\ sub'.allowSelfSigned \in {0, 1}
          /\ sub'.allowSelfSigned = 1 <=> modalModel.errorCode = IMAP_CONNECTION_ERROR
          /\ ~createSent => (modalModel.errorCode = 0 /\ sub'.allowSelfSigned = 0) ]_vars

\* After a captured IMAP connection error the user has submitted again:
\* createImport is in flight with AllowSelfSigned = 1.
C17_Witness ==
    /\ sub.kind = "submitAuthentication" /\ sub.pc = "createImport"
    /\ sub.allowSelfSigned = 1 /\ createSent
    /\ ~closed /\ modalModel.errorCode = IMAP_CONNECTION_ERROR

====
